---- MODULE Spec2Model ----
(***************************************************************************)
(* A model of the yorkie client document: the Document controller         *)
(* (Update, ApplyChangePack, CreateChangePack, SetActor) and the         *)
(* history-preserving RHTPriorityQueueMap that holds an Object's members. *)
(* The last-writer-wins RHT (rht.go) is modelled beside it.                *)
(*                                                                         *)
(* The packages time, change, checkpoint, proxy, converter, pq and the    *)
(* Element types (Object, Primitive, Root) are not part of the sources    *)
(* at hand; they are modelled from the design document and marked so in   *)
(* the comments ("design document").                                      *)
(***************************************************************************)
EXTENDS Integers, Sequences, FiniteSets, TLC

VARIABLES
    doc,        \* the Document of the main specification
    op,         \* the last call made on doc: its name, inputs and result
    replicas,   \* the Documents of the specifications with several replicas
    delivered,  \* for each replica, the remote changes or packs it has applied
    table,      \* the hash tables of the specification of the tables
    last        \* the last call made on the tables, and what it returned

(***************************************************************************)
(* Bounds of the model.                                                    *)
(***************************************************************************)
MaxClientSeq == 3      \* Update is called while changeID.clientSeq is below it
MaxLamport == 3        \* Update is called while changeID.lamport is below it
MaxNodes == 3          \* Update is called while root and clone hold fewer nodes
MaxServerSeq == 1      \* pack checkpoints carry serverSeq in 0..MaxServerSeq

(***************************************************************************)
(* Optional values: a nil pointer is None, a set one is Some(x).           *)
(***************************************************************************)
None == <<>>
Some(x) == <<x>>

\* a Go error value: nil, or the kind of error (design document, section 7)
nil == ""
Max(a, b) == IF a >= b THEN a ELSE b

\* the map m with m[k] set to v (Go: m[k] = v)
Put(m, k, v) == [x \in (DOMAIN m) \cup {k} |-> IF x = k THEN v ELSE m[x]]

(***************************************************************************)
(* time.Ticket (design document): (lamport, delimiter, actor), totally     *)
(* ordered by (lamport, actor, delimiter).  Actor 0 is the unset actor.    *)
(***************************************************************************)
NewTicket(lamport, delimiter, actor) ==
    [lamport |-> lamport, delimiter |-> delimiter, actor |-> actor]

InitialTicket == NewTicket(0, 0, 0)

\* Ticket.Key(): a stable string encoding
TicketKey(t) ==
    ToString(t.lamport) \o ":" \o ToString(t.delimiter) \o ":" \o ToString(t.actor)

\* Ticket.After(other)
After(t, other) ==
    \/ t.lamport > other.lamport
    \/ /\ t.lamport = other.lamport
       /\ \/ t.actor > other.actor
          \/ t.actor = other.actor /\ t.delimiter > other.delimiter

(***************************************************************************)
(* Elements (design document): a Primitive holds a string, an Object holds *)
(* members in an RHTPriorityQueueMap.  Both carry createdAt and removedAt. *)
(***************************************************************************)
NewPrimitive(value, createdAt) ==
    [type |-> "Primitive", value |-> value, createdAt |-> createdAt, removedAt |-> None]

\* Element.Remove: a later removal supersedes an earlier one
ElementRemove(elem, removedAt) ==
    IF elem.removedAt = None \/ After(removedAt, elem.removedAt[1])
    THEN [elem EXCEPT !.removedAt = Some(removedAt)]
    ELSE elem

(***************************************************************************)
(* pq.PriorityQueue (design document): a heap of values under Less.  No    *)
(* value is ever popped, so the heap is kept as the sequence of pushes:    *)
(* Peek is a value no other value is Less than, and among several such    *)
(* the one pushed first (a push moves a value above another only when it   *)
(* is Less than it).                                                       *)
(***************************************************************************)
NewPriorityQueue == <<>>

Push(queue, value) == Append(queue, value)

\* Less turned round: the node created earlier comes first
LessEarlierFirst(n, other) == After(other.elem.createdAt, n.elem.createdAt)

\* RHTPQMapNode.Less: the node created later comes first
Less(n, other) == After(n.elem.createdAt, other.elem.createdAt)

PeekIndex(queue) ==
    CHOOSE i \in 1..Len(queue) :
        /\ \A j \in 1..Len(queue) : ~Less(queue[j], queue[i])
        /\ \A j \in 1..(i - 1) : Less(queue[i], queue[j])

Peek(queue) == queue[PeekIndex(queue)]

(***************************************************************************)
(* RHTPriorityQueueMap.  nodeQueueMapByKey maps a key to its queue of      *)
(* nodes; nodeMapByCreatedAt maps createdAt.Key() to a node of some queue, *)
(* held here as the node's place [key, pos] in nodeQueueMapByKey.          *)
(***************************************************************************)
newRHTPQMapNode(key, elem) == [key |-> key, elem |-> elem]

isRemoved(node) == node.elem.removedAt # None

NewRHTPriorityQueueMap ==
    [nodeQueueMapByKey |-> <<>>, nodeMapByCreatedAt |-> <<>>]

\* Get: the element of the top node of key's queue, nil when it is removed
Get(rht, key) ==
    IF key \notin DOMAIN rht.nodeQueueMapByKey THEN None
    ELSE LET node == Peek(rht.nodeQueueMapByKey[key])
         IN IF isRemoved(node) THEN None ELSE Some(node.elem)

\* Has looking through the whole queue for a node that is not removed
HasLive(rht, key) ==
    IF key \notin DOMAIN rht.nodeQueueMapByKey THEN FALSE
    ELSE \E i \in 1..Len(rht.nodeQueueMapByKey[key]) :
             ~isRemoved(rht.nodeQueueMapByKey[key][i])

Has(rht, key) ==
    IF key \notin DOMAIN rht.nodeQueueMapByKey THEN FALSE
    ELSE ~isRemoved(Peek(rht.nodeQueueMapByKey[key]))

\* Set: push a new node on k's queue and point the identity index at it
Set(rht, k, v) ==
    LET queue == IF k \in DOMAIN rht.nodeQueueMapByKey
                 THEN rht.nodeQueueMapByKey[k] ELSE NewPriorityQueue
        pushed == Push(queue, newRHTPQMapNode(k, v))
    IN [nodeQueueMapByKey |-> Put(rht.nodeQueueMapByKey, k, pushed),
        nodeMapByCreatedAt |->
            Put(rht.nodeMapByCreatedAt, TicketKey(v.createdAt),
                [key |-> k, pos |-> Len(pushed)])]

\* RHTPQMapNode.Remove on the node at place [key, pos]
NodeRemove(rht, place, removedAt) ==
    [rht EXCEPT !.nodeQueueMapByKey[place.key][place.pos].elem =
                    ElementRemove(@, removedAt)]

\* Delete: tombstone the top node of k's queue; returns the element
Delete(rht, k, deletedAt) ==
    IF k \notin DOMAIN rht.nodeQueueMapByKey
    THEN [rht |-> rht, elem |-> None]
    ELSE LET place == [key |-> k, pos |-> PeekIndex(rht.nodeQueueMapByKey[k])]
             after == NodeRemove(rht, place, deletedAt)
         IN [rht |-> after,
             elem |-> Some(after.nodeQueueMapByKey[k][place.pos].elem)]

\* DeleteByCreatedAt handing the removal to the top node of the key's queue
DeleteByCreatedAtOnTop(rht, createdAt, deletedAt) ==
    IF TicketKey(createdAt) \notin DOMAIN rht.nodeMapByCreatedAt
    THEN [rht |-> rht, elem |-> None]
    ELSE Delete(rht, rht.nodeMapByCreatedAt[TicketKey(createdAt)].key, deletedAt)

\* DeleteByCreatedAt: tombstone the node the identity index holds for createdAt
DeleteByCreatedAt(rht, createdAt, deletedAt) ==
    IF TicketKey(createdAt) \notin DOMAIN rht.nodeMapByCreatedAt
    THEN [rht |-> rht, elem |-> None]
    ELSE LET place == rht.nodeMapByCreatedAt[TicketKey(createdAt)]
             after == NodeRemove(rht, place, deletedAt)
         IN [rht |-> after,
             elem |-> Some(after.nodeQueueMapByKey[place.key][place.pos].elem)]

\* Elements: the keys whose top node is live (with the top node's element)
Elements(rht) ==
    [k \in {x \in DOMAIN rht.nodeQueueMapByKey :
                ~isRemoved(Peek(rht.nodeQueueMapByKey[x]))}
        |-> Peek(rht.nodeQueueMapByKey[k]).elem]

(***************************************************************************)
(* Keys and values of the model, and sort.Strings on keys.                 *)
(***************************************************************************)
Keys == {"a", "b"}
SortedKeys == <<"a", "b">>

\* sort.Strings(keys): the keys in ascending byte order
SortStrings(keys) == SelectSeq(SortedKeys, LAMBDA k : k \in keys)

\* AllNodes: every node of every queue, key by key
RECURSIVE ConcatQueues(_, _)
ConcatQueues(rht, keys) ==
    IF keys = <<>> THEN <<>>
    ELSE rht.nodeQueueMapByKey[Head(keys)] \o ConcatQueues(rht, Tail(keys))

AllNodes(rht) == ConcatQueues(rht, SortStrings(DOMAIN rht.nodeQueueMapByKey))

(***************************************************************************)
(* Marshal.  RHTPriorityQueueMap.Marshal writes {"k":v,...} over the live  *)
(* keys in sorted order; v is the element's own Marshal (design document:  *)
(* a Primitive string is written quoted, an Object as its members).        *)
(***************************************************************************)
RECURSIVE Marshal(_)
RECURSIVE MarshalMembers(_, _, _)
ElementMarshal(elem) ==
    IF elem.type = "Object" THEN Marshal(elem.members)
    ELSE "\"" \o elem.value \o "\""

MarshalMembers(members, keys, idx) ==
    IF idx > Len(keys) THEN ""
    ELSE (IF idx > 1 THEN "," ELSE "")
         \o "\"" \o keys[idx] \o "\":" \o ElementMarshal(members[keys[idx]])
         \o MarshalMembers(members, keys, idx + 1)

Marshal(rht) ==
    LET members == Elements(rht)
        keys == SortStrings(DOMAIN members)
    IN "{" \o MarshalMembers(members, keys, 1) \o "}"

(***************************************************************************)
(* Object and Root (design document).  An Object is an element whose       *)
(* members are an RHTPriorityQueueMap.  The Root wraps the top-level       *)
(* Object and keeps the identity index elementMapByCreatedAt, from         *)
(* createdAt.Key() to the element, held here as the element's path: the    *)
(* places [key, pos] leading to it from the top-level Object.              *)
(***************************************************************************)
NewObject(members, createdAt) ==
    [type |-> "Object", members |-> members, createdAt |-> createdAt, removedAt |-> None]

RECURSIVE ElementAt(_, _)
ElementAt(obj, path) ==
    IF path = <<>> THEN obj
    ELSE ElementAt(obj.members.nodeQueueMapByKey[Head(path).key][Head(path).pos].elem,
                   Tail(path))

RECURSIVE ReplaceAt(_, _, _)
ReplaceAt(obj, path, new) ==
    IF path = <<>> THEN new
    ELSE [obj EXCEPT !.members.nodeQueueMapByKey[Head(path).key][Head(path).pos].elem =
                         ReplaceAt(@, Tail(path), new)]

\* the places of AllNodes(rht), in the same order
RECURSIVE PlacesFrom(_, _, _)
PlacesFrom(rht, keys, pos) ==
    IF keys = <<>> THEN <<>>
    ELSE IF pos > Len(rht.nodeQueueMapByKey[Head(keys)])
         THEN PlacesFrom(rht, Tail(keys), 1)
         ELSE <<[key |-> Head(keys), pos |-> pos]>> \o PlacesFrom(rht, keys, pos + 1)

Places(rht) == PlacesFrom(rht, SortStrings(DOMAIN rht.nodeQueueMapByKey), 1)

\* register every element below obj (at path) in the identity index
RECURSIVE RegisterTree(_, _, _, _)
RegisterTree(index, obj, path, places) ==
    IF places = <<>> THEN index
    ELSE LET place == Head(places)
             elem == obj.members.nodeQueueMapByKey[place.key][place.pos].elem
             here == Put(index, TicketKey(elem.createdAt), Append(path, place))
             below == IF elem.type = "Object"
                      THEN RegisterTree(here, elem, Append(path, place),
                                        Places(elem.members))
                      ELSE here
         IN RegisterTree(below, obj, path, Tail(places))

NewRoot(obj) ==
    [object |-> obj,
     elementMapByCreatedAt |->
         RegisterTree(Put(<<>>, TicketKey(obj.createdAt), <<>>), obj, <<>>,
                      Places(obj.members))]

\* Element.DeepCopy: a Primitive is copied as it is; an Object's members are
\* rebuilt by Set over AllNodes, its createdAt and removedAt kept
RECURSIVE ElementDeepCopy(_)
RECURSIVE CopyNodes(_, _)
CopyNodes(rht, nodes) ==
    IF nodes = <<>> THEN rht
    ELSE CopyNodes(Set(rht, Head(nodes).key, ElementDeepCopy(Head(nodes).elem)),
                   Tail(nodes))

ElementDeepCopy(elem) ==
    IF elem.type = "Object"
    THEN [elem EXCEPT !.members = CopyNodes(NewRHTPriorityQueueMap, AllNodes(@))]
    ELSE elem

RootDeepCopy(root) == NewRoot(ElementDeepCopy(root.object))

\* Root.FindByCreatedAt: the path of the element registered for createdAt
FindByCreatedAt(root, createdAt) ==
    IF TicketKey(createdAt) \in DOMAIN root.elementMapByCreatedAt
    THEN Some(root.elementMapByCreatedAt[TicketKey(createdAt)])
    ELSE None

RootMarshal(root) == Marshal(root.object.members)

\* Object.Set on the Object at path, and registration of the new element
ObjectSet(root, path, key, value) ==
    LET parent == ElementAt(root.object, path)
        members == Set(parent.members, key, value)
        place == [key |-> key, pos |-> Len(members.nodeQueueMapByKey[key])]
    IN [object |-> ReplaceAt(root.object, path, [parent EXCEPT !.members = members]),
        elementMapByCreatedAt |->
            Put(root.elementMapByCreatedAt, TicketKey(value.createdAt),
                Append(path, place))]

\* Object.Remove (by key) on the Object at path; returns the removed element
ObjectRemove(root, path, key, removedAt) ==
    LET parent == ElementAt(root.object, path)
        deleted == Delete(parent.members, key, removedAt)
    IN [root |-> [root EXCEPT !.object =
                      ReplaceAt(@, path, [parent EXCEPT !.members = deleted.rht])],
        elem |-> deleted.elem]

\* Object.RemoveByCreatedAt on the Object at path
ObjectRemoveByCreatedAt(root, path, createdAt, removedAt) ==
    LET parent == ElementAt(root.object, path)
        deleted == DeleteByCreatedAt(parent.members, createdAt, removedAt)
    IN [root EXCEPT !.object =
            ReplaceAt(@, path, [parent EXCEPT !.members = deleted.rht])]

(***************************************************************************)
(* change.ID and checkpoint.Checkpoint (design document).                  *)
(***************************************************************************)
NewID(clientSeq, lamport, actor) ==
    [clientSeq |-> clientSeq, lamport |-> lamport, actor |-> actor]

InitialID == NewID(0, 0, 0)

IDNext(id) == NewID(id.clientSeq + 1, id.lamport + 1, id.actor)

\* SyncLamport(remote): lamport = max(self.lamport, remote) + 1
SyncLamport(id, otherLamport) ==
    NewID(id.clientSeq, Max(id.lamport, otherLamport) + 1, id.actor)

IDSetActor(id, actor) == NewID(id.clientSeq, id.lamport, actor)

NewCheckpoint(serverSeq, clientSeq) ==
    [serverSeq |-> serverSeq, clientSeq |-> clientSeq]

InitialCheckpoint == NewCheckpoint(0, 0)

NextServerSeq(cp, serverSeq) == NewCheckpoint(serverSeq, cp.clientSeq)

IncreaseClientSeq(cp, inc) == NewCheckpoint(cp.serverSeq, cp.clientSeq + inc)

\* Forward(other): the component-wise maximum
Forward(cp, other) ==
    NewCheckpoint(Max(cp.serverSeq, other.serverSeq), Max(cp.clientSeq, other.clientSeq))

(***************************************************************************)
(* Operations and changes (design document).  An operation addresses its   *)
(* target Object by createdAt through the root's identity index.  Set puts *)
(* a copy of its value at key; Remove tombstones the element created at    *)
(* createdAt.  Execute fails when the target is missing or no Object.      *)
(***************************************************************************)
NewSet(parentCreatedAt, key, value, executedAt) ==
    [type |-> "Set", parentCreatedAt |-> parentCreatedAt, key |-> key,
     value |-> value, executedAt |-> executedAt]

NewRemove(parentCreatedAt, createdAt, executedAt) ==
    [type |-> "Remove", parentCreatedAt |-> parentCreatedAt,
     createdAt |-> createdAt, executedAt |-> executedAt]

OperationExecute(o, root) ==
    LET found == FindByCreatedAt(root, o.parentCreatedAt)
    IN IF found = None THEN [root |-> root, err |-> "ApplyError"]
       ELSE IF ElementAt(root.object, found[1]).type # "Object"
            THEN [root |-> root, err |-> "ApplyError"]
            ELSE IF o.type = "Set"
                 THEN [root |-> ObjectSet(root, found[1], o.key, ElementDeepCopy(o.value)),
                       err |-> nil]
                 ELSE [root |-> ObjectRemoveByCreatedAt(root, found[1], o.createdAt,
                                                        o.executedAt),
                       err |-> nil]

NewChange(id, message, operations) ==
    [id |-> id, message |-> message, operations |-> operations]

\* the outcome of executing on a root: the root as it is left, and the error
Executed(root, err) == [root |-> root, err |-> err]

\* Change.Execute: the operations in order, stopping at the first that fails;
\* r is the outcome so far
RECURSIVE ExecuteFrom(_, _, _)
ExecuteFrom(operations, idx, r) ==
    IF r.err # nil \/ idx > Len(operations) THEN r
    ELSE ExecuteFrom(operations, idx + 1, OperationExecute(operations[idx], r.root))

ChangeExecute(c, root) == ExecuteFrom(c.operations, 1, Executed(root, nil))

\* Change.SetActor: the actor of the id and of every ticket the change issued
TicketSetActor(t, actor) == NewTicket(t.lamport, t.delimiter, actor)

OperationSetActor(o, actor) ==
    IF o.type = "Set"
    THEN [o EXCEPT !.executedAt = TicketSetActor(@, actor),
                   !.value.createdAt = TicketSetActor(@, actor)]
    ELSE [o EXCEPT !.executedAt = TicketSetActor(@, actor)]

ChangeSetActor(c, actor) ==
    [c EXCEPT !.id = IDSetActor(@, actor),
              !.operations = [i \in 1..Len(@) |-> OperationSetActor(@[i], actor)]]

(***************************************************************************)
(* converter (design document): ObjectToBytes and BytesToObject, a         *)
(* lossless round trip for a well-formed root Object.  The bytes are a     *)
(* header for the Object followed by one field per node, in AllNodes       *)
(* order; decoding rebuilds the members by Set.  Bytes that do not start   *)
(* with an Object header do not decode.                                    *)
(***************************************************************************)
RECURSIVE ObjectToBytes(_)
RECURSIVE NodesToBytes(_)
NodesToBytes(nodes) ==
    IF nodes = <<>> THEN <<>>
    ELSE <<[tag |-> "Member", key |-> Head(nodes).key,
            type |-> Head(nodes).elem.type,
            value |-> IF Head(nodes).elem.type = "Object" THEN ""
                      ELSE Head(nodes).elem.value,
            members |-> IF Head(nodes).elem.type = "Object"
                        THEN ObjectToBytes(Head(nodes).elem) ELSE <<>>,
            createdAt |-> Head(nodes).elem.createdAt,
            removedAt |-> Head(nodes).elem.removedAt]>>
         \o NodesToBytes(Tail(nodes))

ObjectToBytes(obj) ==
    <<[tag |-> "Object", createdAt |-> obj.createdAt, removedAt |-> obj.removedAt]>>
    \o NodesToBytes(AllNodes(obj.members))

RECURSIVE BytesToObject(_)
RECURSIVE BytesToMembers(_, _, _)
BytesToMembers(rht, bytes, idx) ==
    IF idx > Len(bytes) THEN rht
    ELSE LET f == bytes[idx]
             elem == IF f.type = "Object"
                     THEN BytesToObject(f.members).obj
                     ELSE [NewPrimitive(f.value, f.createdAt)
                               EXCEPT !.removedAt = f.removedAt]
         IN BytesToMembers(Set(rht, f.key, elem), bytes, idx + 1)

BytesToObject(bytes) ==
    IF bytes = <<>> \/ bytes[1].tag # "Object"
    THEN [obj |-> None, err |-> "DecodeError"]
    ELSE [obj |-> [NewObject(BytesToMembers(NewRHTPriorityQueueMap, bytes, 2),
                             bytes[1].createdAt)
                       EXCEPT !.removedAt = bytes[1].removedAt],
          err |-> nil]

(***************************************************************************)
(* change.Context and the proxy (design document).  The context carries    *)
(* the draft id, the clone and the operations recorded so far; every new   *)
(* ticket is (id.lamport, ++delimiter, id.actor).  A proxy call edits the  *)
(* clone at once and records the operation that repeats the edit.          *)
(*                                                                         *)
(* An updater closure is the sequence of proxy calls it makes and whether  *)
(* it returns an error after them.  A call names the Object it works on    *)
(* by the keys leading to it (root.GetObject(k)...); a call on an Object   *)
(* the clone does not hold, and a Remove of a key the Object does not      *)
(* have, do nothing.                                                       *)
(***************************************************************************)
NewContext(id, message, root) ==
    [id |-> id, message |-> message, root |-> root, operations |-> <<>>,
     delimiter |-> 0]

HasOperations(ctx) == Len(ctx.operations) > 0

ToChange(ctx) == NewChange(ctx.id, ctx.message, ctx.operations)

IssueTimeTicket(ctx) == NewTicket(ctx.id.lamport, ctx.delimiter + 1, ctx.id.actor)

\* the path of the live Object reached from obj (at path) through keys
RECURSIVE GetObject(_, _, _)
GetObject(obj, path, keys) ==
    IF keys = <<>> THEN Some(path)
    ELSE LET found == Get(obj.members, Head(keys))
         IN IF found = None \/ found[1].type # "Object" THEN None
            ELSE GetObject(found[1],
                           Append(path,
                               [key |-> Head(keys),
                                pos |-> PeekIndex(obj.members.nodeQueueMapByKey[Head(keys)])]),
                           Tail(keys))

ProxySet(ctx, path, key, value) ==
    [ctx EXCEPT !.delimiter = @ + 1,
                !.root = ObjectSet(@, path, key, value),
                !.operations =
                    Append(@, NewSet(ElementAt(ctx.root.object, path).createdAt, key,
                                     value, value.createdAt))]

ProxyRemove(ctx, path, key) ==
    IF ~Has(ElementAt(ctx.root.object, path).members, key) THEN ctx
    ELSE LET ticket == IssueTimeTicket(ctx)
             removed == ObjectRemove(ctx.root, path, key, ticket)
         IN [ctx EXCEPT !.delimiter = @ + 1,
                        !.root = removed.root,
                        !.operations =
                            Append(@, NewRemove(ElementAt(ctx.root.object, path).createdAt,
                                                removed.elem[1].createdAt, ticket))]

ProxyCallOn(ctx, call, target) ==
    IF target = None THEN ctx
    ELSE IF call.name = "SetString"
         THEN ProxySet(ctx, target[1], call.key,
                       NewPrimitive(call.value, IssueTimeTicket(ctx)))
         ELSE IF call.name = "SetNewObject"
              THEN ProxySet(ctx, target[1], call.key,
                            NewObject(NewRHTPriorityQueueMap, IssueTimeTicket(ctx)))
              ELSE ProxyRemove(ctx, target[1], call.key)

\* a call of the closure on the proxy of the Object at call.at
ProxyCall(ctx, call) ==
    ProxyCallOn(ctx, call, GetObject(ctx.root.object, <<>>, call.at))

RECURSIVE RunCalls(_, _, _)
RunCalls(ctx, calls, idx) ==
    IF idx > Len(calls) THEN ctx
    ELSE RunCalls(ProxyCall(ctx, calls[idx]), calls, idx + 1)

\* updater(proxy.NewObjectProxy(ctx, clone.Object())): the context after the
\* closure's calls, and the error it returns
RunUpdater(updater, ctx) ==
    [ctx |-> RunCalls(ctx, updater.calls, 1),
     err |-> IF updater.err THEN "UpdaterError" ELSE nil]

(***************************************************************************)
(* Document.  A call returns the document as the call leaves it (Go edits  *)
(* it in place, so what was done before an error stays done) and whether   *)
(* it returned an error.                                                   *)
(***************************************************************************)
Detached == 0
Attached == 1

\* New: the root Object is empty (created at InitialTicket); its members
\* are kept in an RHTPriorityQueueMap, as the design document has it
New(collection, document) ==
    [key |-> [Collection |-> collection, Document |-> document],
     state |-> Detached,
     root |-> NewRoot(NewObject(NewRHTPriorityQueueMap, InitialTicket)),
     clone |-> None,
     checkpoint |-> InitialCheckpoint,
     changeID |-> InitialID,
     localChanges |-> <<>>]

FromSnapshot(collection, document, serverSeq, snapshot) ==
    LET decoded == BytesToObject(snapshot)
    IN IF decoded.err # nil THEN [doc |-> None, err |-> decoded.err]
       ELSE [doc |-> Some([key |-> [Collection |-> collection, Document |-> document],
                           state |-> Detached,
                           root |-> NewRoot(decoded.obj),
                           clone |-> None,
                           checkpoint |-> NextServerSeq(InitialCheckpoint, serverSeq),
                           changeID |-> InitialID,
                           localChanges |-> <<>>]),
             err |-> nil]

ensureClone(d) ==
    IF d.clone = None THEN [d EXCEPT !.clone = Some(RootDeepCopy(d.root))] ELSE d

HasLocalChanges(d) == Len(d.localChanges) > 0

DocumentMarshal(d) == RootMarshal(d.root)

\* the outcome of a call on a Document: the Document as the call leaves it,
\* and the error
Returned(d, err) == [doc |-> d, err |-> err]

\* Update, lines 124-134: c is the change of the context, executed the
\* outcome of c.Execute(d.root)
UpdateExecuted(d, ctx, c, executed) ==
    IF executed.err # nil
    THEN Returned([d EXCEPT !.root = executed.root], executed.err)
    ELSE Returned([d EXCEPT !.root = executed.root,
                            !.localChanges = Append(@, c),
                            !.changeID = ctx.id], nil)

\* Update without line 119: the clone outlives the closure's error
UpdateRanKeepingClone(d, ran) ==
    IF ran.err # nil
    THEN Returned([d EXCEPT !.clone = Some(ran.ctx.root)], ran.err)
    ELSE IF HasOperations(ran.ctx)
         THEN UpdateExecuted([d EXCEPT !.clone = Some(ran.ctx.root)], ran.ctx,
                             ToChange(ran.ctx), ChangeExecute(ToChange(ran.ctx), d.root))
         ELSE Returned([d EXCEPT !.clone = Some(ran.ctx.root)], nil)

\* Update without the test of line 124: changeID moves to the context's id
\* whether or not the closure recorded an operation
UpdateRanAlwaysAdvancing(d, ran) ==
    IF ran.err # nil
    THEN Returned([d EXCEPT !.clone = None], ran.err)
    ELSE IF HasOperations(ran.ctx)
         THEN UpdateExecuted([d EXCEPT !.clone = Some(ran.ctx.root)], ran.ctx,
                             ToChange(ran.ctx), ChangeExecute(ToChange(ran.ctx), d.root))
         ELSE Returned([d EXCEPT !.clone = Some(ran.ctx.root),
                                 !.changeID = ran.ctx.id], nil)

\* Update, lines 117-134: ran is the outcome of the closure, which has
\* edited the clone in place
UpdateRan(d, ran) ==
    IF ran.err # nil
    THEN Returned([d EXCEPT !.clone = None], ran.err)
    ELSE IF HasOperations(ran.ctx)
         THEN UpdateExecuted([d EXCEPT !.clone = Some(ran.ctx.root)], ran.ctx,
                             ToChange(ran.ctx), ChangeExecute(ToChange(ran.ctx), d.root))
         ELSE Returned([d EXCEPT !.clone = Some(ran.ctx.root)], nil)

\* Update, lines 111-117: the closure runs on the proxy of the clone
UpdateCloned(d, updater) ==
    UpdateRan(d, RunUpdater(updater, NewContext(IDNext(d.changeID), "", d.clone[1])))

Update(d, updater) == UpdateCloned(ensureClone(d), updater)

\* for _, c := range changes { c.Execute(root) }, returning at the first
\* error; r is the outcome so far
RECURSIVE ExecuteChanges(_, _, _)
ExecuteChanges(changes, idx, r) ==
    IF r.err # nil \/ idx > Len(changes) THEN r
    ELSE ExecuteChanges(changes, idx + 1, ChangeExecute(changes[idx], r.root))

\* applySnapshot, lines 178-190: replayed is the outcome of executing the
\* local changes on the new root
SnapshotReplayed(d, replayed, serverSeq) ==
    IF replayed.err # nil
    THEN Returned([d EXCEPT !.root = replayed.root], replayed.err)
    ELSE Returned([d EXCEPT !.root = replayed.root,
                            !.changeID = SyncLamport(@, serverSeq),
                            !.clone = None], nil)

\* applySnapshot, lines 173-184: decoded is the outcome of BytesToObject
SnapshotDecoded(d, decoded, serverSeq) ==
    IF decoded.err # nil THEN Returned(d, decoded.err)
    ELSE SnapshotReplayed(d, ExecuteChanges(d.localChanges, 1,
                                            Executed(NewRoot(decoded.obj), nil)),
                          serverSeq)

applySnapshot(d, snapshot, serverSeq) ==
    SnapshotDecoded(d, BytesToObject(snapshot), serverSeq)

\* applyChanges, lines 204-207: executed is the outcome of c.Execute(d.root)
ExecutedOnRoot(d, c, executed) ==
    IF executed.err # nil
    THEN Returned([d EXCEPT !.root = executed.root], executed.err)
    ELSE Returned([d EXCEPT !.root = executed.root,
                            !.changeID = SyncLamport(@, c.id.lamport)], nil)

\* the second loop of applyChanges: each change on the root, then
\* SyncLamport; r is the outcome so far
RECURSIVE ExecuteAndSync(_, _, _)
ExecuteAndSync(changes, idx, r) ==
    IF r.err # nil \/ idx > Len(changes) THEN r
    ELSE ExecuteAndSync(changes, idx + 1,
             ExecutedOnRoot(r.doc, changes[idx],
                            ChangeExecute(changes[idx], r.doc.root)))

\* the first loop of applyChanges: onClone is the outcome of executing the
\* changes on the clone
ExecutedOnClone(d, onClone) ==
    Returned([d EXCEPT !.clone = Some(onClone.root)], onClone.err)

applyChangesCloned(d, changes) ==
    ExecuteAndSync(changes, 1,
        ExecutedOnClone(d, ExecuteChanges(changes, 1, Executed(d.clone[1], nil))))

applyChanges(d, changes) == applyChangesCloned(ensureClone(d), changes)

\* step 02 with >= for > at line 158: the change whose clientSeq equals the
\* pack's stays in the buffer
RECURSIVE RemoveAppliedLocalChangesOffByOne(_, _)
RemoveAppliedLocalChangesOffByOne(localChanges, clientSeq) ==
    IF Len(localChanges) > 0 /\ ~(localChanges[1].id.clientSeq >= clientSeq)
    THEN RemoveAppliedLocalChangesOffByOne(Tail(localChanges), clientSeq)
    ELSE localChanges

\* step 02 of ApplyChangePack: drop the leading changes the server has
RECURSIVE RemoveAppliedLocalChanges(_, _)
RemoveAppliedLocalChanges(localChanges, clientSeq) ==
    IF Len(localChanges) > 0 /\ ~(localChanges[1].id.clientSeq > clientSeq)
    THEN RemoveAppliedLocalChanges(Tail(localChanges), clientSeq)
    ELSE localChanges

\* steps 02 and 03 with line 165 taking the pack's checkpoint as it comes
RemoveAndTake(applied, pack) ==
    IF applied.err # nil THEN applied
    ELSE Returned([applied.doc EXCEPT
                      !.localChanges =
                          RemoveAppliedLocalChanges(@, pack.checkpoint.clientSeq),
                      !.checkpoint = pack.checkpoint], nil)

\* steps 02 and 03 without step 02: the acknowledged changes stay buffered
ForwardOnly(applied, pack) ==
    IF applied.err # nil THEN applied
    ELSE Returned([applied.doc EXCEPT !.checkpoint = Forward(@, pack.checkpoint)], nil)

\* ApplyChangePack, lines 146-168: applied is the outcome of step 01
RemoveAndForward(applied, pack) ==
    IF applied.err # nil THEN applied
    ELSE Returned([applied.doc EXCEPT
                      !.localChanges =
                          RemoveAppliedLocalChanges(@, pack.checkpoint.clientSeq),
                      !.checkpoint = Forward(@, pack.checkpoint)], nil)

ApplyChangePack(d, pack) ==
    RemoveAndForward(IF Len(pack.snapshot) > 0
                     THEN applySnapshot(d, pack.snapshot, pack.checkpoint.serverSeq)
                     ELSE applyChanges(d, pack.changes),
                     pack)

NewPack(key, cp, changes, snapshot) ==
    [key |-> key, checkpoint |-> cp, changes |-> changes, snapshot |-> snapshot]

\* CreateChangePack that hands the buffer over and empties it
CreateChangePackClearing(d) ==
    LET changes == d.localChanges
        cp == IncreaseClientSeq(d.checkpoint, Len(changes))
    IN [doc |-> [d EXCEPT !.localChanges = <<>>],
        pack |-> NewPack(d.key, cp, changes, <<>>)]

\* CreateChangePack: the pack it returns, and the document as it leaves it
CreateChangePack(d) ==
    LET changes == d.localChanges
        cp == IncreaseClientSeq(d.checkpoint, Len(changes))
    IN [doc |-> d, pack |-> NewPack(d.key, cp, changes, <<>>)]

\* SetActor without the loop over the local changes
SetActorOnChangeID(d, actor) == [d EXCEPT !.changeID = IDSetActor(@, actor)]

SetActor(d, actor) ==
    [d EXCEPT !.localChanges = [i \in 1..Len(@) |-> ChangeSetActor(@[i], actor)],
              !.changeID = IDSetActor(@, actor)]

Actor(d) == d.changeID.actor

UpdateState(d, state) == [d EXCEPT !.state = state]

IsAttached(d) == d.state = Attached

(***************************************************************************)
(* Inputs of the main specification.                                       *)
(***************************************************************************)
MaxCalls == 1          \* an updater closure makes at most MaxCalls proxy calls
MaxPackChanges == 1    \* a pack carries at most MaxPackChanges changes

Values == {"x"}

Call(name, at, key, value) == [name |-> name, at |-> at, key |-> key, value |-> value]

\* the proxy calls a closure of the main specification may make, all of
\* them on the root Object
Calls ==
    {Call("SetString", <<>>, k, v) : k \in Keys, v \in Values}
    \cup {Call("Remove", <<>>, k, "") : k \in Keys}

SeqsUpTo(S, n) == UNION {[1..m -> S] : m \in 0..n}

Updaters == {[calls |-> cs, err |-> e] : cs \in SeqsUpTo(Calls, MaxCalls), e \in BOOLEAN}

\* a remote replica (actor 2) and the changes it makes one Update at a time:
\* set "a", remove "a", put an Object at "b", set "a" inside that Object
Updater(calls) == [calls |-> calls, err |-> FALSE]

\* d after one Update for each of updaters, in order
RECURSIVE Updates(_, _, _)
Updates(d, updaters, idx) ==
    IF idx > Len(updaters) THEN d
    ELSE Updates(Update(d, updaters[idx]).doc, updaters, idx + 1)

Remote ==
    Updates(SetActor(New("c", "d"), 2),
            <<Updater(<<Call("SetString", <<>>, "a", "r")>>),
              Updater(<<Call("Remove", <<>>, "a", "")>>),
              Updater(<<Call("SetNewObject", <<>>, "b", "")>>),
              Updater(<<Call("SetString", <<"b">>, "a", "r")>>)>>, 1)

\* the remote changes a pack may carry: the Set of "a", its removal, and the
\* Set inside the Object at "b", which fails wherever the change that puts
\* the Object there has not arrived
RemoteChanges == [i \in 1..3 |-> Remote.localChanges[IF i = 3 THEN 4 ELSE i]]

\* snapshots a server may send: none, bytes that do not decode, the remote
\* replica's root after its last change
NoSnapshot == <<>>
BadSnapshot == <<[tag |-> "?"]>>
RemoteSnapshot == ObjectToBytes(Remote.root.object)

Checkpoints ==
    {NewCheckpoint(s, c) : s \in 0..MaxServerSeq, c \in 0..MaxClientSeq}

\* the changes of a pack: up to MaxPackChanges remote changes in any order
ChangeSeqs ==
    {[i \in 1..Len(ix) |-> RemoteChanges[ix[i]]] :
        ix \in SeqsUpTo(1..3, MaxPackChanges)}

DocKey == [Collection |-> "c", Document |-> "d"]

\* the packs a server may send: changes only; a snapshot, with or without
\* changes beside it; bytes that do not decode
Packs ==
    {NewPack(DocKey, cp, cs, NoSnapshot) : cp \in Checkpoints, cs \in ChangeSeqs}
    \cup {NewPack(DocKey, cp, cs, RemoteSnapshot) :
            cp \in Checkpoints, cs \in {<<>>, SubSeq(Remote.localChanges, 1, 1)}}
    \cup {NewPack(DocKey, NewCheckpoint(MaxServerSeq, MaxClientSeq), <<>>, BadSnapshot)}

NoPack == NewPack(DocKey, InitialCheckpoint, <<>>, NoSnapshot)

\* the record of a call: its name, the error it returned, the number of
\* operations the updater recorded (Update), the checkpoint and snapshot of
\* the pack applied (ApplyChangePack), the pack returned (CreateChangePack),
\* and the length of the local buffer when the call was made
Called(name, err, recorded, pack, ret, d) ==
    [name |-> name, err |-> err, recorded |-> recorded,
     checkpoint |-> pack.checkpoint, snapshot |-> pack.snapshot, ret |-> ret,
     had |-> Len(d.localChanges)]

\* the number of operations updater records when Update(d, updater) runs it
Recorded(d, updater) ==
    Len(RunUpdater(updater,
                   NewContext(IDNext(d.changeID), "", ensureClone(d).clone[1])).ctx.operations)

\* the number of nodes an Object holds, at every depth
RECURSIVE NodeCount(_)
RECURSIVE NodeCountOf(_)
NodeCountOf(nodes) ==
    IF nodes = <<>> THEN 0
    ELSE 1 + (IF Head(nodes).elem.type = "Object" THEN NodeCount(Head(nodes).elem) ELSE 0)
         + NodeCountOf(Tail(nodes))

NodeCount(obj) == NodeCountOf(AllNodes(obj.members))

\* Update is called while the document is below the bounds of the model,
\* ApplyChangePack while it is not beyond them
BelowBounds(d) ==
    /\ d.changeID.clientSeq < MaxClientSeq
    /\ d.changeID.lamport < MaxLamport
    /\ NodeCount(d.root.object) < MaxNodes
    /\ d.clone # None => NodeCount(d.clone[1].object) < MaxNodes

WithinBounds(d) ==
    /\ d.changeID.lamport <= MaxLamport
    /\ NodeCount(d.root.object) <= MaxNodes
    /\ d.clone # None => NodeCount(d.clone[1].object) <= MaxNodes

(***************************************************************************)
(* The main specification: one Document and the calls made on it.          *)
(***************************************************************************)
vars == <<doc, op, replicas, delivered, table, last>>

\* the specifications of one Document leave replicas and delivered empty;
\* those of several replicas leave doc and op as New made them
OneDocument ==
    /\ doc = New("c", "d")
    /\ op = Called("New", nil, 0, NoPack, NoPack, New("c", "d"))

\* the specifications of Documents leave table and last empty
NoTables ==
    /\ table = <<>>
    /\ last = <<>>

Init ==
    /\ OneDocument
    /\ NoTables
    /\ replicas = <<>>
    /\ delivered = <<>>

DoUpdate ==
    /\ BelowBounds(doc)
    /\ \E updater \in Updaters :
        LET r == Update(doc, updater)
        IN /\ doc' = r.doc
           /\ op' = Called("Update", r.err, Recorded(doc, updater), NoPack, NoPack, doc)
           /\ UNCHANGED <<replicas, delivered, table, last>>

DoApplyChangePack ==
    /\ WithinBounds(doc)
    /\ \E pack \in Packs :
        LET r == ApplyChangePack(doc, pack)
        IN /\ doc' = r.doc
           /\ op' = Called("ApplyChangePack", r.err, 0, pack, NoPack, doc)
           /\ UNCHANGED <<replicas, delivered, table, last>>

DoCreateChangePack ==
    LET r == CreateChangePack(doc)
    IN /\ doc' = r.doc
       /\ op' = Called("CreateChangePack", nil, 0, NoPack, r.pack, doc)
       /\ UNCHANGED <<replicas, delivered, table, last>>

Next ==
    \/ DoUpdate
    \/ DoApplyChangePack
    \/ DoCreateChangePack

Spec == Init /\ [][Next]_vars

(***************************************************************************)
(* Properties of the main specification.                                   *)
(***************************************************************************)

\* the clientSeq and lamport of the buffered changes grow from front to back
BufferIncreasing(d) ==
    \A i \in 1..(Len(d.localChanges) - 1) :
        /\ d.localChanges[i].id.clientSeq < d.localChanges[i + 1].id.clientSeq
        /\ d.localChanges[i].id.lamport < d.localChanges[i + 1].id.lamport

\* C1 (clone isolation): when the closure passed to Update returns an error,
\* Marshal(), changeID, the local buffer and the checkpoint are what they
\* were before the call and the clone is dropped, so that the clone the next
\* Update makes is a deep copy of the unchanged root and shows what the root
\* showed before the failed call.
C1_CloneIsolation ==
    [][(op'.name = "Update" /\ op'.err = "UpdaterError") =>
            /\ DocumentMarshal(doc') = DocumentMarshal(doc)
            /\ doc'.root = doc.root
            /\ doc'.changeID = doc.changeID
            /\ doc'.localChanges = doc.localChanges
            /\ doc'.checkpoint = doc.checkpoint
            /\ doc'.clone = None
            /\ ensureClone(doc').clone[1] = RootDeepCopy(doc.root)
            /\ RootMarshal(ensureClone(doc').clone[1]) = DocumentMarshal(doc)]_vars

\* a closure has recorded edits against the clone of a document with local
\* changes and a non-empty root, and has returned an error
C1_Witness ==
    /\ op.name = "Update"
    /\ op.err = "UpdaterError"
    /\ op.recorded > 0
    /\ Len(doc.localChanges) > 0
    /\ DocumentMarshal(doc) # "{}"

\* C3 (local trim): a successful ApplyChangePack(p) leaves in the buffer
\* exactly the changes whose clientSeq is greater than
\* p.checkpoint.clientSeq, in the order they had.
C3_LocalTrim ==
    [][(op'.name = "ApplyChangePack" /\ op'.err = nil) =>
            /\ \A i \in 1..Len(doc'.localChanges) :
                   doc'.localChanges[i].id.clientSeq > op'.checkpoint.clientSeq
            /\ doc'.localChanges =
                   SelectSeq(doc.localChanges,
                             LAMBDA c : c.id.clientSeq > op'.checkpoint.clientSeq)]_vars

\* the buffer held the changes 1, 2, 3 and a pack with checkpoint.clientSeq 2
\* has left the change 3 alone
C3_Witness ==
    /\ op.name = "ApplyChangePack"
    /\ op.err = nil
    /\ op.had = 3
    /\ op.checkpoint.clientSeq = 2
    /\ Len(doc.localChanges) = 1
    /\ doc.localChanges[1].id.clientSeq = 3

\* C4 (checkpoint monotonicity): no call, failing or not, lowers
\* checkpoint.serverSeq or checkpoint.clientSeq.
C4_CheckpointMonotonic ==
    [][/\ doc'.checkpoint.serverSeq >= doc.checkpoint.serverSeq
       /\ doc'.checkpoint.clientSeq >= doc.checkpoint.clientSeq]_vars

\* a pack whose checkpoint is lower than the document's in both parts has
\* been applied
C4_Witness ==
    /\ op.name = "ApplyChangePack"
    /\ op.err = nil
    /\ op.checkpoint.serverSeq < doc.checkpoint.serverSeq
    /\ op.checkpoint.clientSeq < doc.checkpoint.clientSeq

\* the tickets of the elements an Object holds, at every depth: createdAt
\* and, where set, removedAt
RECURSIVE TicketsOf(_)
TicketsOf(obj) ==
    UNION {{n.elem.createdAt}
           \cup (IF n.elem.removedAt = None THEN {} ELSE {n.elem.removedAt[1]})
           \cup (IF n.elem.type = "Object" THEN TicketsOf(n.elem) ELSE {}) :
           n \in {AllNodes(obj.members)[i] : i \in 1..Len(AllNodes(obj.members))}}

\* the tickets in the root that another replica issued
RemoteTickets(d) == {t \in TicketsOf(d.root.object) : t.actor # Actor(d)}

\* C5 (Lamport domination): after a successful ApplyChangePack, on the
\* incremental and on the snapshot path, changeID.lamport is at least the
\* lamport of every remote ticket the root has taken in.
C5_LamportDomination ==
    (op.name = "ApplyChangePack" /\ op.err = nil) =>
        \A t \in RemoteTickets(doc) : doc.changeID.lamport >= t.lamport

\* the root that C6 expects: the decoded snapshot with the changes of buffer
\* whose clientSeq is greater than clientSeq replayed on it
SnapshotWithUnacknowledged(snapshot, buffer, clientSeq) ==
    ExecuteChanges(SelectSeq(buffer, LAMBDA c : c.id.clientSeq > clientSeq), 1,
                   Executed(NewRoot(BytesToObject(snapshot).obj), nil)).root

\* C6 (snapshot supersedes changes): after a successful ApplyChangePack of
\* a pack with a snapshot, the root shows the decoded snapshot with exactly
\* the un-acknowledged local changes replayed on it; the changes of the pack
\* and the acknowledged local changes are not executed.
C6_SnapshotSupersedes ==
    [][(op'.name = "ApplyChangePack" /\ op'.err = nil /\ Len(op'.snapshot) > 0) =>
            DocumentMarshal(doc') =
                RootMarshal(SnapshotWithUnacknowledged(op'.snapshot, doc.localChanges,
                                                       op'.checkpoint.clientSeq))]_vars

\* C8 (change-id advance): Update changes changeID exactly when it appends
\* one change; the change carries the new changeID, whose clientSeq is one
\* more and whose lamport is greater than before; a closure that records
\* nothing or returns an error leaves buffer and changeID alone; and the
\* clientSeq and lamport of the buffered changes stay increasing, whatever
\* calls are interleaved.
C8_ChangeIDAdvance ==
    [][/\ op'.name = "Update" =>
            /\ (doc'.changeID # doc.changeID) <=>
                   /\ Len(doc'.localChanges) = Len(doc.localChanges) + 1
                   /\ SubSeq(doc'.localChanges, 1, Len(doc.localChanges)) = doc.localChanges
            /\ (doc'.changeID = doc.changeID) => doc'.localChanges = doc.localChanges
            /\ (doc'.changeID # doc.changeID) =>
                   /\ doc'.localChanges[Len(doc'.localChanges)].id = doc'.changeID
                   /\ doc'.changeID.clientSeq = doc.changeID.clientSeq + 1
                   /\ doc'.changeID.lamport > doc.changeID.lamport
            /\ (op'.recorded = 0 \/ op'.err # nil) =>
                   /\ doc'.localChanges = doc.localChanges
                   /\ doc'.changeID = doc.changeID
       /\ BufferIncreasing(doc')]_vars

\* an Update has appended a second change after a remote change moved the
\* Lamport clock forward between the two
C8_Witness ==
    /\ op.name = "Update"
    /\ op.err = nil
    /\ op.recorded > 0
    /\ Len(doc.localChanges) = 2
    /\ doc.localChanges[2].id = doc.changeID
    /\ doc.localChanges[2].id.lamport > doc.localChanges[1].id.lamport + 1

\* C10 (CreateChangePack is a pure read): the pack holds the buffered
\* changes in order and the checkpoint (serverSeq, clientSeq + len(buffer));
\* the document is left as it was, so a second call returns the same pack.
C10_CreateChangePackPure ==
    [][op'.name = "CreateChangePack" =>
            /\ op'.ret.changes = doc.localChanges
            /\ op'.ret.checkpoint.serverSeq = doc.checkpoint.serverSeq
            /\ op'.ret.checkpoint.clientSeq =
                   doc.checkpoint.clientSeq + Len(doc.localChanges)
            /\ doc' = doc
            /\ op.name = "CreateChangePack" => op'.ret = op.ret]_vars

\* a pack has been made of a buffer of two changes, one of them trimmed
\* before, on a checkpoint an earlier pack had moved forward
C10_Witness ==
    /\ op.name = "CreateChangePack"
    /\ Len(op.ret.changes) = 2
    /\ doc.checkpoint.clientSeq = 1
    /\ op.ret.checkpoint.clientSeq = 3
    /\ Len(doc.localChanges) = 2

(***************************************************************************)
(* Convergence: two replicas that start as New made them and apply, one    *)
(* pack a change and no change twice, the changes of two remote authors    *)
(* in whatever order they arrive.                                          *)
(***************************************************************************)
Replicas == {"A", "B"}

\* a second remote replica (actor 3): it sets "a" and removes it
Other ==
    Updates(SetActor(New("c", "d"), 3),
            <<Updater(<<Call("SetString", <<>>, "a", "s")>>),
              Updater(<<Call("Remove", <<>>, "a", "")>>)>>, 1)

\* the changes in flight: each author's Set of "a" and its removal of the
\* element it set, which the Remove names by createdAt
Pool ==
    SubSeq(Remote.localChanges, 1, 2) \o Other.localChanges

\* the pack that carries changes and acknowledges nothing
Relay(changes) == NewPack(DocKey, InitialCheckpoint, changes, NoSnapshot)

ConvInit ==
    /\ OneDocument
    /\ NoTables
    /\ replicas = [r \in Replicas |-> New("c", "d")]
    /\ delivered = [r \in Replicas |-> {}]

ConvApply ==
    /\ \E r \in Replicas : \E i \in (1..Len(Pool)) \ delivered[r] :
        /\ replicas' = [replicas EXCEPT
                           ![r] = ApplyChangePack(@, Relay(<<Pool[i]>>)).doc]
        /\ delivered' = [delivered EXCEPT ![r] = @ \cup {i}]
    /\ UNCHANGED <<doc, op, table, last>>

ConvNext == ConvApply

SpecConv == ConvInit /\ [][ConvNext]_vars

\* C2 (convergence): two replicas that started from the same state and have
\* applied the same set of changes through ApplyChangePack, in any order,
\* a removal by createdAt before the Set of its element included, show the
\* same Marshal().
C2_Convergence ==
    delivered["A"] = delivered["B"] =>
        DocumentMarshal(replicas["A"]) = DocumentMarshal(replicas["B"])

(***************************************************************************)
(* Concurrent Sets: replica A (actor 1) and replica B (actor 2) each set   *)
(* keys of the root and apply each other's changes, relayed one a pack in  *)
(* whatever order, none twice.                                             *)
(***************************************************************************)
MaxSets == 2           \* each replica makes at most MaxSets changes

ActorOf == [A |-> 1, B |-> 2]
ValueOf == [A |-> "x", B |-> "y"]

Peer(r) == IF r = "A" THEN "B" ELSE "A"

PairInit ==
    /\ OneDocument
    /\ NoTables
    /\ replicas = [r \in Replicas |-> SetActor(New("c", "d"), ActorOf[r])]
    /\ delivered = [r \in Replicas |-> {}]

PairSet ==
    /\ \E r \in Replicas : \E k \in Keys :
        /\ Len(replicas[r].localChanges) < MaxSets
        /\ replicas' = [replicas EXCEPT
                           ![r] = Update(@, Updater(<<Call("SetString", <<>>, k,
                                                          ValueOf[r])>>)).doc]
    /\ UNCHANGED <<doc, op, delivered, table, last>>

PairDeliver ==
    /\ \E r \in Replicas :
        \E i \in (1..Len(replicas[Peer(r)].localChanges)) \ delivered[r] :
            /\ replicas' = [replicas EXCEPT
                               ![r] = ApplyChangePack(@,
                                          Relay(<<replicas[Peer(r)].localChanges[i]>>)).doc]
            /\ delivered' = [delivered EXCEPT ![r] = @ \cup {i}]
    /\ UNCHANGED <<doc, op, table, last>>

PairNext == PairSet \/ PairDeliver

SpecPair == PairInit /\ [][PairNext]_vars

\* the Set operations on key k in a sequence of changes
SetsIn(changes, k) ==
    {changes[i].operations[1] : i \in {j \in 1..Len(changes) :
        changes[j].operations[1].type = "Set" /\ changes[j].operations[1].key = k}}

\* the Sets of k that replica r has executed: its own and those delivered
SetsSeen(r, k) ==
    SetsIn(replicas[r].localChanges, k)
    \cup SetsIn([i \in 1..Len(replicas[Peer(r)].localChanges) |->
                    IF i \in delivered[r] THEN replicas[Peer(r)].localChanges[i]
                    ELSE NewChange(InitialID, "", <<NewRemove(InitialTicket, InitialTicket,
                                                              InitialTicket)>>)], k)

\* the element among sets whose createdAt is the largest Ticket
Winner(sets) ==
    (CHOOSE o \in sets :
        \A p \in sets \ {o} : After(o.value.createdAt, p.value.createdAt)).value

Exchanged ==
    \A r \in Replicas : delivered[r] = 1..Len(replicas[Peer(r)].localChanges)

\* C7 (concurrent Set on one key): whatever the order in which a replica
\* executed the Sets of key k, its Get(k) is the element with the largest
\* createdAt among them; so once A and B have applied each other's changes
\* both show the same element, the one with the larger Ticket.
C7_ConcurrentSet ==
    /\ \A r \in Replicas : \A k \in Keys :
           SetsSeen(r, k) # {} =>
               Get(replicas[r].root.object.members, k) = Some(Winner(SetsSeen(r, k)))
    /\ Exchanged =>
           DocumentMarshal(replicas["A"]) = DocumentMarshal(replicas["B"])

\* A and B have set "a" concurrently (equal lamport) and exchanged the
\* changes: B's element wins on both, executed second on A and first on B
C7_Witness ==
    /\ Exchanged
    /\ Len(replicas["A"].localChanges) = 1
    /\ Len(replicas["B"].localChanges) = 1
    /\ replicas["A"].localChanges[1].operations[1].key = "a"
    /\ replicas["B"].localChanges[1].operations[1].key = "a"
    /\ replicas["A"].localChanges[1].id.lamport = replicas["B"].localChanges[1].id.lamport
    /\ replicas["A"].root.object.members.nodeQueueMapByKey["a"][2].elem.value = "y"
    /\ replicas["B"].root.object.members.nodeQueueMapByKey["a"][1].elem.value = "y"
    /\ DocumentMarshal(replicas["A"]) = "{\"a\":\"y\"}"
    /\ DocumentMarshal(replicas["B"]) = "{\"a\":\"y\"}"

(***************************************************************************)
(* Repeated packs: two Documents get the same calls, but the second gets   *)
(* every pack twice.  The packs carry the remote replica's changes in the  *)
(* order it made them and acknowledge some of the local changes.           *)
(***************************************************************************)
Copies == {"once", "twice"}

\* the changes of the packs, in the order the remote replica made them
RemotePacks == [i \in 1..Len(Remote.localChanges) |-> <<Remote.localChanges[i]>>]

IdemInit ==
    /\ OneDocument
    /\ NoTables
    /\ replicas = [r \in Copies |-> New("c", "d")]
    /\ delivered = [r \in Copies |-> {}]

IdemApply ==
    /\ LET i == Cardinality(delivered["once"]) + 1
       IN /\ i <= Len(RemotePacks)
          /\ \E ack \in 0..replicas["once"].changeID.clientSeq :
              LET pack == NewPack(DocKey, NewCheckpoint(i, ack),
                                  RemotePacks[i], NoSnapshot)
              IN replicas' =
                     [once |-> ApplyChangePack(replicas["once"], pack).doc,
                      twice |-> ApplyChangePack(
                                    ApplyChangePack(replicas["twice"], pack).doc,
                                    pack).doc]
          /\ delivered' = [r \in Copies |-> delivered[r] \cup {i}]
    /\ UNCHANGED <<doc, op, table, last>>

IdemUpdate ==
    /\ replicas["once"].changeID.clientSeq < MaxSets
    /\ \E call \in Calls :
        replicas' = [r \in Copies |-> Update(replicas[r], Updater(<<call>>)).doc]
    /\ UNCHANGED <<doc, op, delivered, table, last>>

IdemNext == IdemApply \/ IdemUpdate

SpecIdem == IdemInit /\ [][IdemNext]_vars

\* the clientSeqs of the buffered changes
ClientSeqs(d) == [i \in 1..Len(d.localChanges) |-> d.localChanges[i].id.clientSeq]

\* C9 (idempotent application): a Document that applied every pack twice
\* has the Marshal(), the buffered changes and the checkpoint of one that
\* applied every pack once, also after a later operation removes by
\* createdAt an element whose Set was applied twice.
C9_Idempotent ==
    /\ DocumentMarshal(replicas["twice"]) = DocumentMarshal(replicas["once"])
    /\ ClientSeqs(replicas["twice"]) = ClientSeqs(replicas["once"])
    /\ replicas["twice"].checkpoint = replicas["once"].checkpoint


(***************************************************************************)
(* RHT (rht.go): the last-writer-wins hash table.  Its two maps hold       *)
(* pointers to nodes; the nodes are kept here in the sequence nodes, in    *)
(* the order newRHTNode made them, and each map holds a node's position.   *)
(***************************************************************************)
newRHTNode(key, val, updatedAt) ==
    [key |-> key, val |-> val, updatedAt |-> updatedAt, removedAt |-> None]

\* RHTNode.Remove without the comparison: the last removal wins
RHTNodeRemoveLast(n, removedAt) == [n EXCEPT !.removedAt = Some(removedAt)]

\* RHTNode.Remove
RHTNodeRemove(n, removedAt) ==
    IF n.removedAt = None \/ After(removedAt, n.removedAt[1])
    THEN [n EXCEPT !.removedAt = Some(removedAt)]
    ELSE n

\* RHTNode.isRemoved
RHTNodeIsRemoved(n) == n.removedAt # None

NewRHT == [nodes |-> <<>>, nodeMapByKey |-> <<>>, nodeMapByCreatedAt |-> <<>>]

\* RHT.Get: "" for a key without a node or with a removed node
RHTGet(rht, key) ==
    IF key \in DOMAIN rht.nodeMapByKey
    THEN IF RHTNodeIsRemoved(rht.nodes[rht.nodeMapByKey[key]])
         THEN ""
         ELSE rht.nodes[rht.nodeMapByKey[key]].val
    ELSE ""

\* RHT.Has
RHTHas(rht, key) ==
    IF key \in DOMAIN rht.nodeMapByKey
    THEN ~RHTNodeIsRemoved(rht.nodes[rht.nodeMapByKey[key]])
    ELSE FALSE

\* RHT.Set keeping the node at k when its updatedAt is the later one
RHTSetIfLater(rht, k, v, updatedAt) ==
    IF k \in DOMAIN rht.nodeMapByKey
       /\ After(rht.nodes[rht.nodeMapByKey[k]].updatedAt, updatedAt)
    THEN rht
    ELSE [nodes |-> Append(rht.nodes, newRHTNode(k, v, updatedAt)),
          nodeMapByKey |-> Put(rht.nodeMapByKey, k, Len(rht.nodes) + 1),
          nodeMapByCreatedAt |->
              Put(rht.nodeMapByCreatedAt, TicketKey(updatedAt), Len(rht.nodes) + 1)]

\* RHT.Set: a new node takes k's place in nodeMapByKey, whatever was there
RHTSet(rht, k, v, updatedAt) ==
    [nodes |-> Append(rht.nodes, newRHTNode(k, v, updatedAt)),
     nodeMapByKey |-> Put(rht.nodeMapByKey, k, Len(rht.nodes) + 1),
     nodeMapByCreatedAt |->
         Put(rht.nodeMapByCreatedAt, TicketKey(updatedAt), Len(rht.nodes) + 1)]

\* node.Remove(removedAt) on the node at position pos; returns node.val
RHTRemoveAt(rht, pos, removedAt) ==
    [rht |-> [rht EXCEPT !.nodes[pos] = RHTNodeRemove(@, removedAt)],
     val |-> rht.nodes[pos].val]

\* RHT.Remove
RHTRemove(rht, k, removedAt) ==
    IF k \in DOMAIN rht.nodeMapByKey
    THEN RHTRemoveAt(rht, rht.nodeMapByKey[k], removedAt)
    ELSE [rht |-> rht, val |-> ""]

\* RHT.RemoveByCreatedAt removing the node of the first key instead
RHTRemoveByCreatedAtAnyway(rht, createdAt, removedAt) ==
    IF TicketKey(createdAt) \in DOMAIN rht.nodeMapByCreatedAt
    THEN RHTRemoveAt(rht, rht.nodeMapByCreatedAt[TicketKey(createdAt)], removedAt)
    ELSE IF rht.nodes = <<>> THEN [rht |-> rht, val |-> ""]
         ELSE RHTRemoveAt(rht, 1, removedAt)

\* RHT.RemoveByCreatedAt
RHTRemoveByCreatedAt(rht, createdAt, removedAt) ==
    IF TicketKey(createdAt) \in DOMAIN rht.nodeMapByCreatedAt
    THEN RHTRemoveAt(rht, rht.nodeMapByCreatedAt[TicketKey(createdAt)], removedAt)
    ELSE [rht |-> rht, val |-> ""]

\* RHT.Elements: the values of the keys whose node is not removed
RHTElements(rht) ==
    [k \in {x \in DOMAIN rht.nodeMapByKey :
                ~RHTNodeIsRemoved(rht.nodes[rht.nodeMapByKey[x]])}
        |-> rht.nodes[rht.nodeMapByKey[k]].val]

\* RHT.AllNodes: the nodes of nodeMapByKey.  Go ranges over the map in an
\* order of its own; the nodes are taken here key by key.
RHTNodesOf(rht, keys) == [i \in 1..Len(keys) |-> rht.nodes[rht.nodeMapByKey[keys[i]]]]

RHTAllNodes(rht) == RHTNodesOf(rht, SortStrings(DOMAIN rht.nodeMapByKey))

\* RHT.DeepCopy: a new table, with Set called for every node of AllNodes
RECURSIVE RHTCopyNodes(_, _, _)
RHTCopyNodes(instance, nodes, idx) ==
    IF idx > Len(nodes) THEN instance
    ELSE RHTCopyNodes(RHTSet(instance, nodes[idx].key, nodes[idx].val,
                             nodes[idx].updatedAt),
                      nodes, idx + 1)

RHTDeepCopy(rht) == RHTCopyNodes(NewRHT, RHTAllNodes(rht), 1)

\* RHT.Marshal: {"k":"v",...} over Elements, keys sorted
RECURSIVE RHTMarshalMembers(_, _, _)
RHTMarshalMembers(members, keys, idx) ==
    IF idx > Len(keys) THEN ""
    ELSE (IF idx > 1 THEN "," ELSE "")
         \o "\"" \o keys[idx] \o "\":\"" \o members[keys[idx]] \o "\""
         \o RHTMarshalMembers(members, keys, idx + 1)

RHTMarshalOf(members) ==
    "{" \o RHTMarshalMembers(members, SortStrings(DOMAIN members), 1) \o "}"

RHTMarshal(rht) == RHTMarshalOf(RHTElements(rht))


(***************************************************************************)
(* The specification of the tables: an RHT and an RHTPriorityQueueMap      *)
(* receive the same calls.  Set(k, v, t) is RHT.Set(k, v, t) and           *)
(* RHTPriorityQueueMap.Set(k, Primitive v created at t); Remove(k, t) is   *)
(* RHT.Remove and RHTPriorityQueueMap.Delete; RemoveByCreatedAt(c, t) is   *)
(* RHT.RemoveByCreatedAt and RHTPriorityQueueMap.DeleteByCreatedAt.  A     *)
(* ticket names one element: Set is called with a ticket no earlier Set    *)
(* had, in any order of tickets; removals carry any ticket.                *)
(***************************************************************************)
MaxTicket == 3         \* tickets of the tables carry lamport 1..MaxTicket
MaxTableCalls == 4     \* calls made on the tables

TableTickets == {NewTicket(l, 0, 1) : l \in 1..MaxTicket}
TableValues == {"x", "y"}

\* the record of a call: its arguments (None for one it does not take), what
\* each table returned, and the node each table handed the removal to
\* (position 0 and place None when it found none)
TableCalled(name, k, v, createdAt, removedAt, rhtVal, pqElem, rhtPos, pqPlace) ==
    [name |-> name, k |-> k, v |-> v, createdAt |-> createdAt,
     removedAt |-> removedAt, rhtVal |-> rhtVal, pqElem |-> pqElem,
     rhtPos |-> rhtPos, pqPlace |-> pqPlace]

Tables(rht, pq, calls) == [rht |-> rht, pq |-> pq, calls |-> calls]

TableInit ==
    /\ OneDocument
    /\ replicas = <<>>
    /\ delivered = <<>>
    /\ table = Tables(NewRHT, NewRHTPriorityQueueMap, 0)
    /\ last = TableCalled("New", None, None, None, None, "", None, 0, None)

TableSet ==
    \E k \in Keys, v \in TableValues, t \in TableTickets :
        /\ table.calls < MaxTableCalls
        /\ TicketKey(t) \notin DOMAIN table.rht.nodeMapByCreatedAt
        /\ table' = Tables(RHTSet(table.rht, k, v, t),
                           Set(table.pq, k, NewPrimitive(v, t)),
                           table.calls + 1)
        /\ last' = TableCalled("Set", Some(k), Some(v), Some(t), None, "", None, 0, None)
        /\ UNCHANGED <<doc, op, replicas, delivered>>

\* the state after a removal that returned removedRHT and removedPQ
TableRemoved(name, k, createdAt, removedAt, removedRHT, removedPQ, rhtPos, pqPlace) ==
    /\ table' = Tables(removedRHT.rht, removedPQ.rht, table.calls + 1)
    /\ last' = TableCalled(name, k, None, createdAt, Some(removedAt),
                           removedRHT.val, removedPQ.elem, rhtPos, pqPlace)
    /\ UNCHANGED <<doc, op, replicas, delivered>>

TableRemove ==
    \E k \in Keys, t \in TableTickets :
        /\ table.calls < MaxTableCalls
        /\ TableRemoved("Remove", Some(k), None, t,
                        RHTRemove(table.rht, k, t), Delete(table.pq, k, t),
                        IF k \in DOMAIN table.rht.nodeMapByKey
                        THEN table.rht.nodeMapByKey[k] ELSE 0,
                        IF k \in DOMAIN table.pq.nodeQueueMapByKey
                        THEN Some([key |-> k,
                                   pos |-> PeekIndex(table.pq.nodeQueueMapByKey[k])])
                        ELSE None)

TableRemoveByCreatedAt ==
    \E c \in TableTickets, t \in TableTickets :
        /\ table.calls < MaxTableCalls
        /\ TableRemoved("RemoveByCreatedAt", None, Some(c), t,
                        RHTRemoveByCreatedAt(table.rht, c, t),
                        DeleteByCreatedAt(table.pq, c, t),
                        IF TicketKey(c) \in DOMAIN table.rht.nodeMapByCreatedAt
                        THEN table.rht.nodeMapByCreatedAt[TicketKey(c)] ELSE 0,
                        IF TicketKey(c) \in DOMAIN table.pq.nodeMapByCreatedAt
                        THEN Some(table.pq.nodeMapByCreatedAt[TicketKey(c)])
                        ELSE None)

TableNext ==
    \/ TableSet
    \/ TableRemove
    \/ TableRemoveByCreatedAt

SpecTables == TableInit /\ [][TableNext]_vars


(***************************************************************************)
(* Properties of the tables.                                               *)
(***************************************************************************)
\* removedAt of one node before (old) and after (new) a call whose removal
\* ticket is t (None for a call that removes nothing): once set it stays
\* set and never moves to an earlier ticket, and it changes only to t, and
\* only when t is later than old
RemovedAtGrows(old, new, t) ==
    /\ old # None => new # None /\ ~After(old[1], new[1])
    /\ new # old => /\ t # None
                    /\ new = t
                    /\ old = None \/ After(t[1], old[1])

\* removedAt of the node a removal with ticket t was handed to: the later of
\* old and t
RemovedAtIsLater(old, new, t) ==
    /\ new # None
    /\ new = Some(t) \/ new = old
    /\ ~After(t, new[1])
    /\ old # None => ~After(old[1], new[1])

\* the places of the nodes of every queue
PQPlaces(rht) ==
    UNION {{[key |-> k, pos |-> i] : i \in 1..Len(rht.nodeQueueMapByKey[k])} :
           k \in DOMAIN rht.nodeQueueMapByKey}

PQNodeAt(rht, place) == rht.nodeQueueMapByKey[place.key][place.pos]


\* C11: tombstone monotonicity.  In every call on the tables, for every node
\* of the RHT and of the RHTPriorityQueueMap, removedAt once set stays set
\* and is overwritten only by a later ticket; a removal (by key or by
\* creation time) with an earlier or equal ticket leaves it unchanged; and
\* the node the removal was handed to ends with the later of its removedAt
\* and the removal's ticket - so after any sequence of removals it holds the
\* maximum of their tickets, in whatever order they came.
C11_TombstoneMonotonic ==
    [][/\ \A i \in 1..Len(table.rht.nodes) :
              RemovedAtGrows(table.rht.nodes[i].removedAt,
                             table'.rht.nodes[i].removedAt, last'.removedAt)
       /\ \A place \in PQPlaces(table.pq) :
              RemovedAtGrows(PQNodeAt(table.pq, place).elem.removedAt,
                             PQNodeAt(table'.pq, place).elem.removedAt,
                             last'.removedAt)
       /\ last'.rhtPos # 0 =>
              RemovedAtIsLater(table.rht.nodes[last'.rhtPos].removedAt,
                               table'.rht.nodes[last'.rhtPos].removedAt,
                               last'.removedAt[1])
       /\ last'.pqPlace # None =>
              RemovedAtIsLater(PQNodeAt(table.pq, last'.pqPlace[1]).elem.removedAt,
                               PQNodeAt(table'.pq, last'.pqPlace[1]).elem.removedAt,
                               last'.removedAt[1])
      ]_vars

\* a removal with an earlier ticket has just been handed, in both tables, to
\* a node that was removed with a later one
C11_Witness ==
    /\ last.rhtPos # 0
    /\ After(table.rht.nodes[last.rhtPos].removedAt[1], last.removedAt[1])
    /\ last.pqPlace # None
    /\ After(PQNodeAt(table.pq, last.pqPlace[1]).elem.removedAt[1], last.removedAt[1])


(***************************************************************************)
(* The specification of the actor: one Document whose client makes local   *)
(* changes, is attached and detached, is given its actor (again, when it   *)
(* moves to another one), and receives the server's acknowledgements -     *)
(* packs that carry a checkpoint and nothing else.                         *)
(***************************************************************************)
Actors == {1, 2}

Acknowledgements == {NewPack(DocKey, cp, <<>>, NoSnapshot) : cp \in Checkpoints}

\* the record of SetActor or UpdateState: the argument, and Actor() before
ActorCalled(name, arg, d) == [name |-> name, arg |-> arg, was |-> Actor(d)]

DoAcknowledge ==
    \E pack \in Acknowledgements :
        /\ doc' = ApplyChangePack(doc, pack).doc
        /\ op' = Called("ApplyChangePack", ApplyChangePack(doc, pack).err, 0,
                        pack, NoPack, doc)
        /\ UNCHANGED <<replicas, delivered, table, last>>

DoSetActor ==
    \E actor \in Actors :
        /\ doc' = SetActor(doc, actor)
        /\ op' = ActorCalled("SetActor", actor, doc)
        /\ UNCHANGED <<replicas, delivered, table, last>>

DoUpdateState ==
    \E state \in {Detached, Attached} :
        /\ doc' = UpdateState(doc, state)
        /\ op' = ActorCalled("UpdateState", state, doc)
        /\ UNCHANGED <<replicas, delivered, table, last>>

ActorNext ==
    \/ DoUpdate
    \/ DoAcknowledge
    \/ DoSetActor
    \/ DoUpdateState

SpecActor == Init /\ [][ActorNext]_vars

\* the sequence numbers of a change ID: what SetActor is to leave alone
SequenceNumbers(id) == <<id.clientSeq, id.lamport>>

\* C12: SetActor(a) rewrites the actor of changeID and of every change of
\* the local buffer - afterwards Actor() = a and every buffered change
\* carries a - and leaves alone the clientSeq and lamport of changeID and of
\* every buffered change, the order and length of the buffer, the checkpoint
\* and the attached/detached state.
C12_SetActorFrame ==
    [][op'.name = "SetActor" =>
          /\ Actor(doc') = op'.arg
          /\ \A i \in 1..Len(doc'.localChanges) :
                 doc'.localChanges[i].id.actor = op'.arg
          /\ SequenceNumbers(doc'.changeID) = SequenceNumbers(doc.changeID)
          /\ Len(doc'.localChanges) = Len(doc.localChanges)
          /\ \A i \in 1..Len(doc.localChanges) :
                 SequenceNumbers(doc'.localChanges[i].id) = SequenceNumbers(doc.localChanges[i].id)
          /\ doc'.checkpoint = doc.checkpoint
          /\ doc'.state = doc.state
      ]_vars

\* SetActor has just moved an attached Document with two buffered changes
\* and an acknowledged one to another actor
C12_Witness ==
    /\ op.name = "SetActor"
    /\ op.arg # op.was
    /\ op.was # 0
    /\ Len(doc.localChanges) >= 2
    /\ doc.checkpoint.clientSeq > 0
    /\ IsAttached(doc)


(***************************************************************************)
(* The specification of the draft: one Document whose updater closures     *)
(* also work on the Object at "b", and which receives packs of two remote  *)
(* changes: the one that puts an Object at "b", and one that sets a member *)
(* of an Object this Document never held (its Set was not delivered), so   *)
(* that Change.Execute fails on it.                                        *)
(***************************************************************************)
MaxDraftCalls == 2     \* an updater closure of this specification makes at most MaxDraftCalls calls

\* a replica (actor 3) that puts an Object of its own at "b" and sets "a" in it
Stray ==
    Updates(SetActor(New("c", "d"), 3),
            <<Updater(<<Call("SetNewObject", <<>>, "b", "")>>),
              Updater(<<Call("SetString", <<"b">>, "a", "s")>>)>>, 1)

DraftChanges == <<Remote.localChanges[3], Stray.localChanges[2]>>

DraftPacks ==
    {NewPack(DocKey, InitialCheckpoint, [i \in 1..Len(ix) |-> DraftChanges[ix[i]]],
             NoSnapshot) : ix \in SeqsUpTo(1..2, 2)}

DraftCalls == Calls \cup {Call("SetString", <<"b">>, "a", v) : v \in Values}

DraftUpdaters ==
    {[calls |-> cs, err |-> e] : cs \in SeqsUpTo(DraftCalls, MaxDraftCalls), e \in BOOLEAN}

\* doc and op after a call that returned r
DraftReturned(name, r, recorded, pack) ==
    /\ doc' = r.doc
    /\ op' = Called(name, r.err, recorded, pack, NoPack, doc)
    /\ UNCHANGED <<replicas, delivered, table, last>>

DraftUpdate ==
    /\ BelowBounds(doc)
    /\ \E updater \in DraftUpdaters :
           DraftReturned("Update", Update(doc, updater), Recorded(doc, updater), NoPack)

DraftApply ==
    /\ WithinBounds(doc)
    /\ \E pack \in DraftPacks :
           DraftReturned("ApplyChangePack", ApplyChangePack(doc, pack), 0, pack)

DraftNext ==
    \/ DraftUpdate
    \/ DraftApply

SpecDraft == Init /\ [][DraftNext]_vars

\* C13: Update leaves no partial state.  When Update returns an error, root,
\* local buffer and changeID are as before the call and the clone is dropped
\* or holds no edit of the draft (it is the clone the call started from);
\* when it returns nil with operations recorded, the draft is committed: the
\* change is appended to the buffer and changeID is the draft id.
C13_NoPartialState ==
    [][op'.name = "Update" =>
          /\ op'.err # nil =>
                 /\ doc'.root = doc.root
                 /\ doc'.localChanges = doc.localChanges
                 /\ doc'.changeID = doc.changeID
                 /\ doc'.clone = None \/ doc'.clone = ensureClone(doc).clone
          /\ op'.err = nil /\ op'.recorded > 0 =>
                 /\ Len(doc'.localChanges) = Len(doc.localChanges) + 1
                 /\ doc'.changeID = IDNext(doc.changeID)
                 /\ doc'.localChanges[Len(doc'.localChanges)].id = doc'.changeID
      ]_vars


\* the nodes Set has made for key k, and the one among them created last
NodesEverSet(rht, k) ==
    {PQNodeAt(rht, place) : place \in {p \in PQPlaces(rht) : p.key = k}}

Newest(rht, k) ==
    CHOOSE n \in NodesEverSet(rht, k) :
        \A m \in NodesEverSet(rht, k) : ~After(m.elem.createdAt, n.elem.createdAt)

\* key k shows: a node was Set for it and the newest one is not tombstoned
Shows(rht, k) ==
    /\ NodesEverSet(rht, k) # {}
    /\ Newest(rht, k).elem.removedAt = None

\* what Marshal writes for key k
MarshalEntry(rht, k) == "\"" \o k \o "\":\"" \o Newest(rht, k).elem.value \o "\""

\* the keys that show, each once, in ascending order
MarshalShown(rht) ==
    "{" \o (IF Shows(rht, "a") THEN MarshalEntry(rht, "a") ELSE "")
        \o (IF Shows(rht, "a") /\ Shows(rht, "b") THEN "," ELSE "")
        \o (IF Shows(rht, "b") THEN MarshalEntry(rht, "b") ELSE "")
        \o "}"

\* C14: the live view of the RHTPriorityQueueMap.  After any sequence of
\* Set, Delete and DeleteByCreatedAt, Has(k) is true, and Get(k) returns an
\* element (the newest one), exactly when the node with the greatest
\* createdAt ever Set for k is not tombstoned - whatever older nodes of k
\* are still live; Elements holds exactly those keys, and Marshal lists
\* exactly them, each once, in ascending key order.
C14_LiveView ==
    /\ \A k \in Keys :
           /\ Has(table.pq, k) = Shows(table.pq, k)
           /\ (Get(table.pq, k) # None) = Shows(table.pq, k)
           /\ Shows(table.pq, k) => Get(table.pq, k) = Some(Newest(table.pq, k).elem)
    /\ DOMAIN Elements(table.pq) = {k \in Keys : Shows(table.pq, k)}
    /\ Marshal(table.pq) = MarshalShown(table.pq)

\* "a" does not show although an older node of it is live (its newest node
\* is tombstoned), and "b" shows
C14_Witness ==
    /\ \E n \in NodesEverSet(table.pq, "a") : n.elem.removedAt = None
    /\ ~Shows(table.pq, "a")
    /\ ~Has(table.pq, "a")
    /\ Has(table.pq, "b")
    /\ Marshal(table.pq) = "{" \o MarshalEntry(table.pq, "b") \o "}"


\* C15: losing elements stay addressable.  When a key has been Set twice,
\* DeleteByCreatedAt with the createdAt of an older (losing) element finds
\* that element, tombstones it and no other node, and returns it; the newest
\* element, Get(k), Has(k) and Marshal() are as before.  No call takes a
\* node from a queue: every queue keeps its nodes in place and is never
\* empty.
C15_LosersAddressable ==
    [][/\ (/\ last'.name = "RemoveByCreatedAt"
           /\ last'.pqPlace # None
           /\ PQNodeAt(table.pq, last'.pqPlace[1])
                  # Newest(table.pq, last'.pqPlace[1].key))
          => /\ last'.pqElem # None
             /\ last'.pqElem[1].createdAt = last'.createdAt[1]
             /\ last'.pqElem[1] = PQNodeAt(table'.pq, last'.pqPlace[1]).elem
             /\ last'.pqElem[1].removedAt # None
             /\ PQNodeAt(table'.pq, last'.pqPlace[1]).elem.value
                    = PQNodeAt(table.pq, last'.pqPlace[1]).elem.value
             /\ \A place \in PQPlaces(table.pq) \ {last'.pqPlace[1]} :
                    PQNodeAt(table'.pq, place) = PQNodeAt(table.pq, place)
             /\ PQPlaces(table'.pq) = PQPlaces(table.pq)
             /\ \A k \in Keys : /\ Get(table'.pq, k) = Get(table.pq, k)
                                /\ Has(table'.pq, k) = Has(table.pq, k)
             /\ Marshal(table'.pq) = Marshal(table.pq)
       /\ PQPlaces(table.pq) \subseteq PQPlaces(table'.pq)
       /\ \A place \in PQPlaces(table.pq) :
              /\ PQNodeAt(table'.pq, place).key = PQNodeAt(table.pq, place).key
              /\ PQNodeAt(table'.pq, place).elem.createdAt
                     = PQNodeAt(table.pq, place).elem.createdAt
       /\ \A k \in DOMAIN table'.pq.nodeQueueMapByKey :
              Len(table'.pq.nodeQueueMapByKey[k]) >= 1
      ]_vars

\* DeleteByCreatedAt has just tombstoned an older element of a key whose
\* newest element is live
C15_Witness ==
    /\ last.name = "RemoveByCreatedAt"
    /\ last.pqPlace # None
    /\ PQNodeAt(table.pq, last.pqPlace[1]) # Newest(table.pq, last.pqPlace[1].key)
    /\ last.pqElem = Some(PQNodeAt(table.pq, last.pqPlace[1]).elem)
    /\ Has(table.pq, last.pqPlace[1].key)


\* C16: a missing identity is a no-op.  RHT.RemoveByCreatedAt and
\* RHTPriorityQueueMap.DeleteByCreatedAt, called with a createdAt that is
\* not in the table's identity index, return the absent value ("" and nil)
\* and leave the table's indexes and every node, removedAt included, as
\* they were.
C16_MissingIdentity ==
    [][last'.name = "RemoveByCreatedAt" =>
          /\ TicketKey(last'.createdAt[1]) \notin DOMAIN table.rht.nodeMapByCreatedAt
                 => /\ last'.rhtVal = ""
                    /\ table'.rht = table.rht
          /\ TicketKey(last'.createdAt[1]) \notin DOMAIN table.pq.nodeMapByCreatedAt
                 => /\ last'.pqElem = None
                    /\ table'.pq = table.pq
      ]_vars

\* a removal by a createdAt that names no node has just been made on tables
\* that hold a live node and a removed one
C16_Witness ==
    /\ last.name = "RemoveByCreatedAt"
    /\ last.rhtPos = 0
    /\ last.pqPlace = None
    /\ \E i \in 1..Len(table.rht.nodes) : table.rht.nodes[i].removedAt = None
    /\ \E i \in 1..Len(table.rht.nodes) : table.rht.nodes[i].removedAt # None
    /\ \E place \in PQPlaces(table.pq) : PQNodeAt(table.pq, place).elem.removedAt = None


\* the nodes (positions in nodes) a map of the RHT holds
NodesIn(index) == {index[x] : x \in DOMAIN index}

\* C17: the dual-index invariant of the RHT.  After any sequence of Set,
\* Remove and RemoveByCreatedAt, repeated Sets of a key included, the nodes
\* in nodeMapByKey are the nodes in nodeMapByCreatedAt: every node the table
\* holds is reachable through both indexes.
C17_DualIndex ==
    NodesIn(table.rht.nodeMapByKey) = NodesIn(table.rht.nodeMapByCreatedAt)


\* C18: Set of the LWW RHT replaces unconditionally.  After Set(k, v, t),
\* Get(k) = v and Has(k) is true whatever node was at k before - one with a
\* later updatedAt than t, or a tombstoned one, which makes the key live
\* again.  The value of a key after two Sets is that of the Set applied
\* last, whatever their tickets.
C18_SetReplaces ==
    [][last'.name = "Set" =>
          /\ RHTGet(table'.rht, last'.k[1]) = last'.v[1]
          /\ RHTHas(table'.rht, last'.k[1])
          /\ table'.rht.nodes[table'.rht.nodeMapByKey[last'.k[1]]].updatedAt
                 = last'.createdAt[1]
      ]_vars

\* the last node made (updated at t) took the place, at key k, of a node
\* with another value that was updated later than t, and was removed or not
SetOver(rht, k, v, t, removed) ==
    \E i \in 1..Len(rht.nodes) - 1 :
        /\ rht.nodes[i].key = k
        /\ rht.nodes[i].val # v
        /\ After(rht.nodes[i].updatedAt, t)
        /\ (rht.nodes[i].removedAt # None) = removed
        /\ \A j \in (i + 1)..(Len(rht.nodes) - 1) : rht.nodes[j].key # k

\* Set has just replaced a tombstoned node that was updated later
C18_Witness ==
    /\ last.name = "Set"
    /\ SetOver(table.rht, last.k[1], last.v[1], last.createdAt[1], TRUE)
    /\ RHTGet(table.rht, last.k[1]) = last.v[1]


\* the node the RHT holds at key k
RHTNodeOf(rht, k) == rht.nodes[rht.nodeMapByKey[k]]

\* copy shows what rht shows: Has, Get and removedAt of every key, and Marshal
SameView(rht, copy) ==
    /\ \A k \in Keys :
           /\ RHTHas(copy, k) = RHTHas(rht, k)
           /\ RHTGet(copy, k) = RHTGet(rht, k)
           /\ k \in DOMAIN rht.nodeMapByKey =>
                  /\ k \in DOMAIN copy.nodeMapByKey
                  /\ RHTNodeOf(copy, k).removedAt = RHTNodeOf(rht, k).removedAt
    /\ RHTMarshal(copy) = RHTMarshal(rht)

\* C19: RHT.DeepCopy preserves the observable state.  For every RHT reached
\* by Set, Remove and RemoveByCreatedAt, the copy agrees with the original
\* on Has(k) and Get(k) for every key and on Marshal(), tombstoned keys
\* included: the copy's node keeps the removedAt of the original's.
C19_DeepCopyView == SameView(table.rht, RHTDeepCopy(table.rht))


(***************************************************************************)
(* The specification of the acknowledgements: the main specification with  *)
(* a server that acknowledges only what the Document has sent - the        *)
(* checkpoint of a pack carries no clientSeq beyond that of the last       *)
(* change the Document has produced.                                       *)
(***************************************************************************)
AckedPacks(d) == {pack \in Packs : pack.checkpoint.clientSeq <= d.changeID.clientSeq}

AckedApplyChangePack ==
    /\ WithinBounds(doc)
    /\ \E pack \in AckedPacks(doc) :
           DraftReturned("ApplyChangePack", ApplyChangePack(doc, pack), 0, pack)

AckedNext ==
    \/ DoUpdate
    \/ AckedApplyChangePack
    \/ DoCreateChangePack

SpecAcked == Init /\ [][AckedNext]_vars

\* C20: client-sequence accounting.  In every state reached from New by
\* Update, CreateChangePack and ApplyChangePack with packs that acknowledge
\* no more than the Document has produced, checkpoint.clientSeq plus the
\* length of the local buffer is changeID.clientSeq; so the pack
\* CreateChangePack returns carries, when the buffer is not empty, the
\* clientSeq of the last buffered change in its checkpoint.
C20_ClientSeqAccounting ==
    /\ doc.checkpoint.clientSeq + Len(doc.localChanges) = doc.changeID.clientSeq
    /\ op.name = "CreateChangePack" /\ Len(doc.localChanges) > 0 =>
           op.ret.checkpoint.clientSeq
               = doc.localChanges[Len(doc.localChanges)].id.clientSeq

\* CreateChangePack has just returned a pack of a Document that holds
\* buffered changes behind acknowledged ones
C20_Witness ==
    /\ op.name = "CreateChangePack"
    /\ Len(doc.localChanges) > 0
    /\ doc.checkpoint.clientSeq > 0
    /\ Len(op.ret.changes) = Len(doc.localChanges)

====
